---- MODULE Spec2Model ----
(***************************************************************************)
(* Model of api.js, the es-shim API validator.                             *)
(*                                                                         *)
(* The program reads five command-line flags and a list of module names,   *)
(* then registers one tape test per module.  tape runs the tests one after *)
(* the other; inside a test, the sub-tests registered with t.test run in   *)
(* registration order once the test callback has called t.end().  The      *)
(* `auto` sub-test spawns a child process and ends only when the child's   *)
(* `close` event has fired and the single planned assertion is made.       *)
(*                                                                         *)
(* The file system (what each require() and readdirSync() finds) is the    *)
(* input.  A test reads the part of it its module name resolves to when    *)
(* its callback runs, and no other part, so that part is chosen then.      *)
(***************************************************************************)
EXTENDS Integers, Sequences, FiniteSets, TLC

\* Bounds of the model.
MaxModules == 1
MaxSubs == 1
MaxFaults == 1

VARIABLES
    isBound,          \* --bound
    isProperty,       \* --property
    skipShimPolyfill, \* --skip-shim-returns-polyfill
    skipAutoShim,     \* --skip-auto-shim
    isMulti,          \* --multi
    cwd,              \* process.cwd(), relative to the package directory
    moduleNames,      \* number of module names on the command line
    current,          \* number of tape tests started so far
    unit,             \* what the running test's module name resolves to
    ended,            \* whether the test started last has emitted 'end'
    progeny,          \* sub-tests of the running test that have not ended yet
    procs,            \* child processes the running test spawned, in order
    log,              \* what the running test has told tape so far, in order
    status            \* "running", or "crashed" after an uncaught exception

flags == <<isBound, isProperty, skipShimPolyfill, skipAutoShim, isMulti, cwd,
           moduleNames>>
vars == <<isBound, isProperty, skipShimPolyfill, skipAutoShim, isMulti, cwd,
          moduleNames, current, unit, ended, progeny, procs, log, status>>

(***************************************************************************)
(* The file system.                                                        *)
(***************************************************************************)

\* A package directory that satisfies the whole contract.
\*   main, implementation, polyfill, shim: what require() of that module
\*     yields: a "function", some other value, or "absent" (require throws);
\*   implLinked, polyLinked, shimLinked: whether the main export's property
\*     of that name is the very object the sub-module exports;
\*   polyfillReturns, shimReturns: the object a call returns, "main" being
\*     the main export itself;
\*   auto: whether require(<dir>/auto) "loads" or "throws";
\*   exit: the exit code of the probe child run in that directory.
Conforming ==
    [main |-> "function", implementation |-> "function",
     polyfill |-> "function", shim |-> "function",
     implLinked |-> TRUE, polyLinked |-> TRUE, shimLinked |-> TRUE,
     polyfillReturns |-> "main", shimReturns |-> "main",
     auto |-> "loads", exit |-> 0]

\* The values told apart for each attribute.  In single mode the main
\* export's properties are read and compared with the sub-modules, so a
\* main export of "null" (reading a property throws) differs from another
\* non-function, and a sub-module that loads as a non-function (it can be
\* the linked object) from one that is absent.  In multi mode only typeof
\* and the calls look at them, and a non-function stands for all.
PackageDomain(multi) ==
    IF multi
    THEN [main |-> {"function", "object", "absent"},
          implementation |-> {"function", "absent"},
          polyfill |-> {"function", "absent"},
          shim |-> {"function", "absent"},
          polyfillReturns |-> {"main", "other"},
          shimReturns |-> {"main", "other"},
          auto |-> {"loads", "throws"},
          exit |-> {0, 1}]
    ELSE [main |-> {"function", "object", "null", "absent"},
          implementation |-> {"function", "data", "absent"},
          polyfill |-> {"function", "object", "absent"},
          shim |-> {"function", "object", "absent"},
          implLinked |-> BOOLEAN, polyLinked |-> BOOLEAN,
          shimLinked |-> BOOLEAN,
          polyfillReturns |-> {"main", "other"},
          shimReturns |-> {"main", "other"},
          auto |-> {"loads", "throws"},
          exit |-> {0, 1}]

\* Names of the sub-package directories, in directory-listing order.
Names == <<"a", "b", "c", "d">>

NameIndex(name) == CHOOSE i \in 1..Len(Names) : Names[i] = name

\* The eligible sub-directories of a root that holds n sub-packages.
Eligible(n) == [i \in 1..n |-> Names[i]]

\* What readdirSync(packageDir) returns for a root with n sub-packages.
Listing(n) ==
    <<[name |-> ".git", hidden |-> TRUE, isDir |-> TRUE]>>
    \o [i \in 1..n |-> [name |-> Names[i], hidden |-> FALSE, isDir |-> TRUE]]
    \o <<[name |-> "helpers", hidden |-> FALSE, isDir |-> TRUE],
         [name |-> "index.js", hidden |-> FALSE, isDir |-> FALSE],
         [name |-> "node_modules", hidden |-> FALSE, isDir |-> TRUE],
         [name |-> "test", hidden |-> FALSE, isDir |-> TRUE]>>

RemoveAt(s, i) == [j \in 1..(Len(s) - 1) |-> IF j < i THEN s[j] ELSE s[j + 1]]

Reverse(s) == [j \in 1..Len(s) |-> s[Len(s) + 1 - j]]

\* A multi-package root that satisfies the whole contract.
\*   exports: the main export: a dense "array" of names, an array with an
\*     extra enumerable property ("augmented"), a non-array "object",
\*     "null", or "absent" (require throws);
\*   declared: the names the array holds;
\*   implInPackageDir, implInValidatorDir: whether an `implementation`
\*     module resolves next to the package root, next to api.js.
ConformingRoot(n) ==
    [n |-> n, exports |-> "array", declared |-> Eligible(n),
     shim |-> "function", auto |-> "loads", exit |-> 0,
     implInPackageDir |-> FALSE, implInValidatorDir |-> FALSE,
     subs |-> [i \in 1..n |-> Conforming]]

RootDomain(n) ==
    [exports |-> {"array", "augmented", "object", "null", "absent"},
     declared |-> {Eligible(n), Reverse(Eligible(n))}
                    \cup {RemoveAt(Eligible(n), i) : i \in 1..n},
     shim |-> {"function", "absent"},
     auto |-> {"loads", "throws"},
     exit |-> {0, 1},
     implInPackageDir |-> BOOLEAN, implInValidatorDir |-> BOOLEAN]

\* The package directories obtained from p by changing one attribute.
PackageVariants(multi, p) ==
    UNION {{[p EXCEPT ![f] = v] : v \in PackageDomain(multi)[f]} :
              f \in DOMAIN PackageDomain(multi)}

RootVariants(r) ==
    UNION {{[r EXCEPT ![f] = v] : v \in RootDomain(r.n)[f]} :
              f \in DOMAIN RootDomain(r.n)}
    \cup UNION {{[r EXCEPT !.subs[i] = q] :
                    q \in PackageVariants(TRUE, r.subs[i])} : i \in 1..r.n}

\* A module name resolves to a package directory (single mode) or to a
\* multi-package root (multi mode).
UnitVariants(multi, x) ==
    IF multi THEN RootVariants(x)
    ELSE {[pkg |-> q] : q \in PackageVariants(FALSE, x.pkg)}

ConformingUnits(multi) ==
    IF multi THEN {ConformingRoot(n) : n \in 1..MaxSubs}
    ELSE {[pkg |-> Conforming]}

\* What a module name may resolve to: anything that differs from a
\* conforming package in at most k attributes.
RECURSIVE Units(_, _)
Units(multi, k) ==
    IF k = 0 THEN ConformingUnits(multi)
    ELSE LET prev == Units(multi, k - 1)
         IN  prev \cup UNION {UnitVariants(multi, x) : x \in prev}

\* The working directories told apart: the package directory itself, a
\* directory with none of its entries ("empty"), and one that holds regular
\* files of the same names ("shadow").  Single mode never reads it.
WorkingDirs(multi) ==
    IF multi THEN {"packageDir", "empty", "shadow"} ELSE {"packageDir"}

(***************************************************************************)
(* What tape is told.                                                      *)
(***************************************************************************)

\* The assertions of doValidation, numbered as the ten checks of a package.
CheckMsg ==
    <<"module is a function",
      "module.exports === getPolyfill()",
      "module.exports.implementation === implementation.js",
      "implementation is a function",
      "module.exports.getPolyfill === polyfill.js",
      "getPolyfill is a function",
      "module.exports.shim === shim.js",
      "shim is a function",
      "shim returns polyfill",
      "auto is present">>

\* One line of tape's output: an assertion ("Pass"/"Fail"), a skip record
\* ("Skip") or a plain comment ("Note").  probe is the index in procs of the
\* child whose exit the assertion reports, 0 for every other line.
Record(u, prefix, msg, outcome) ==
    [unit |-> u, prefix |-> prefix, msg |-> msg, outcome |-> outcome,
     probe |-> 0]

PassIf(cond) == IF cond THEN "Pass" ELSE "Fail"

\* st.equal(a, b, msg), st.ok(a, msg) with the comparison already made.
Assertion(u, prefix, msg, cond) == Record(u, prefix, msg, PassIf(cond))

\* st.comment('# SKIP ' + msg), and tape's own record of a skipped sub-test.
SkipRecord(u, prefix, msg) == Record(u, prefix, msg, "Skip")

(***************************************************************************)
(* Loading.                                                                *)
(***************************************************************************)

\* require(name) inside try/catch: a load failure becomes an EvalError value.
requireOrEvalError(found) == IF found = "absent" THEN "EvalError" ELSE found

\* typeof value === 'function'
IsFunction(value) == value = "function"

\* The package directory a sub-test's closure captured: the named package
\* itself (prefix "") or the sub-package of that name.
PackageAt(u, prefix) ==
    IF isMulti THEN unit.subs[NameIndex(prefix)] ELSE unit.pkg

\* The directory testAuto was handed.
AutoDir(u, prefix) ==
    IF prefix = "root"
    THEN [auto |-> unit.auto, exit |-> unit.exit]
    ELSE [auto |-> PackageAt(u, prefix).auto,
          exit |-> PackageAt(u, prefix).exit]

SubTest(kind, u, prefix) == [kind |-> kind, unit |-> u, prefix |-> prefix]

(***************************************************************************)
(* The sub-tests of doValidation.  Each yields the lines it records, in     *)
(* order, and whether it then threw an exception nothing catches.          *)
(***************************************************************************)

Outcome(asserts, threw) == [asserts |-> asserts, threw |-> threw]

\* The nested sub-test 'module is NOT bound', skipped with --bound.
notBoundTest(u, prefix, p) ==
    IF isBound
    THEN Outcome(<<SkipRecord(u, prefix, CheckMsg[2])>>, FALSE)
    ELSE IF IsFunction(requireOrEvalError(p.polyfill))
    THEN Outcome(<<Assertion(u, prefix, CheckMsg[2],
                             p.polyfillReturns = "main")>>, FALSE)
    ELSE Outcome(<<>>, TRUE)

exportTest(u, prefix, p) ==
    LET nested == notBoundTest(u, prefix, p)
    IN  Outcome(<<Assertion(u, prefix, CheckMsg[1], IsFunction(p.main))>>
                    \o nested.asserts,
                nested.threw)

\* Variant of implementationTest that forgets --property.
implementationTest_NoPropertySkip(u, prefix, p) ==
    LET implementation == requireOrEvalError(p.implementation)
        typeCheck ==
            Assertion(u, prefix, CheckMsg[4], IsFunction(implementation))
    IN  IF isMulti
        THEN Outcome(<<SkipRecord(u, prefix, CheckMsg[3]), typeCheck>>, FALSE)
        ELSE IF p.main = "null"
        THEN Outcome(<<>>, TRUE)
        ELSE Outcome(<<Assertion(u, prefix, CheckMsg[3],
                                 implementation # "EvalError" /\ p.implLinked),
                       typeCheck>>, FALSE)

implementationTest(u, prefix, p) ==
    LET implementation == requireOrEvalError(p.implementation)
        typeCheck ==
            IF isProperty
            THEN SkipRecord(u, prefix, CheckMsg[4])
            ELSE Assertion(u, prefix, CheckMsg[4], IsFunction(implementation))
    IN  IF isMulti
        THEN Outcome(<<SkipRecord(u, prefix, CheckMsg[3]), typeCheck>>, FALSE)
        ELSE IF p.main = "null"
        THEN Outcome(<<>>, TRUE)
        ELSE Outcome(<<Assertion(u, prefix, CheckMsg[3],
                                 implementation # "EvalError" /\ p.implLinked),
                       typeCheck>>, FALSE)

polyfillTest(u, prefix, p) ==
    LET getPolyfill == requireOrEvalError(p.polyfill)
        typeCheck == Assertion(u, prefix, CheckMsg[6], IsFunction(getPolyfill))
    IN  IF isMulti
        THEN Outcome(<<SkipRecord(u, prefix, CheckMsg[5]), typeCheck>>, FALSE)
        ELSE IF p.main = "null"
        THEN Outcome(<<>>, TRUE)
        ELSE Outcome(<<Assertion(u, prefix, CheckMsg[5],
                                 getPolyfill # "EvalError" /\ p.polyLinked),
                       typeCheck>>, FALSE)

\* Variant of shimReturnsPolyfill that forgets --skip-shim-returns-polyfill.
shimReturnsPolyfill_IgnoresSkip(u, prefix, p) ==
    IF ~IsFunction(requireOrEvalError(p.shim))
    THEN Outcome(<<>>, FALSE)
    ELSE IF IsFunction(requireOrEvalError(p.polyfill))
    THEN Outcome(<<Assertion(u, prefix, CheckMsg[9],
                             p.shimReturns = p.polyfillReturns)>>, FALSE)
    ELSE Outcome(<<>>, TRUE)

\* The part of the shim sub-test guarded by typeof shim === 'function'.
shimReturnsPolyfill(u, prefix, p) ==
    IF ~IsFunction(requireOrEvalError(p.shim))
    THEN Outcome(<<>>, FALSE)
    ELSE IF skipShimPolyfill
    THEN Outcome(<<SkipRecord(u, prefix, CheckMsg[9])>>, FALSE)
    ELSE IF IsFunction(requireOrEvalError(p.polyfill))
    THEN Outcome(<<Assertion(u, prefix, CheckMsg[9],
                             p.shimReturns = p.polyfillReturns)>>, FALSE)
    ELSE Outcome(<<>>, TRUE)

\* Variant of shimTest that compares module.shim with shim.js in multi mode
\* too.
shimTest_NoMultiSkip(u, prefix, p) ==
    LET shim == requireOrEvalError(p.shim)
        typeCheck == Assertion(u, prefix, CheckMsg[8], IsFunction(shim))
        returns == shimReturnsPolyfill(u, prefix, p)
    IN  IF p.main = "null"
        THEN Outcome(<<>>, TRUE)
        ELSE Outcome(<<Assertion(u, prefix, CheckMsg[7],
                                 shim # "EvalError" /\ p.shimLinked),
                       typeCheck>> \o returns.asserts, returns.threw)

shimTest(u, prefix, p) ==
    LET shim == requireOrEvalError(p.shim)
        typeCheck == Assertion(u, prefix, CheckMsg[8], IsFunction(shim))
        returns == shimReturnsPolyfill(u, prefix, p)
    IN  IF isMulti
        THEN Outcome(<<SkipRecord(u, prefix, CheckMsg[7]), typeCheck>>
                         \o returns.asserts, returns.threw)
        ELSE IF p.main = "null"
        THEN Outcome(<<>>, TRUE)
        ELSE Outcome(<<Assertion(u, prefix, CheckMsg[7],
                                 shim # "EvalError" /\ p.shimLinked),
                       typeCheck>> \o returns.asserts, returns.threw)

(***************************************************************************)
(* doValidation and validateModule: what the test callback does before it  *)
(* calls t.end().                                                          *)
(***************************************************************************)

\* Variant of doValidation that calls testAuto before it registers the
\* other sub-tests.
doValidation_AutoFirst(u, prefix, p) ==
    IF requireOrEvalError(p.main) = "EvalError"
    THEN [ret |-> "EvalError", tests |-> <<>>]
    ELSE [ret |-> "undefined",
          tests |-> <<SubTest("auto", u, prefix),
                      SubTest("export", u, prefix),
                      SubTest("implementation", u, prefix),
                      SubTest("polyfill", u, prefix),
                      SubTest("shim", u, prefix)>>]

\* ret is what the function returns, tests the sub-tests it registered.
doValidation(u, prefix, p) ==
    IF requireOrEvalError(p.main) = "EvalError"
    THEN [ret |-> "EvalError", tests |-> <<>>]
    ELSE [ret |-> "undefined",
          tests |-> <<SubTest("export", u, prefix),
                      SubTest("implementation", u, prefix),
                      SubTest("polyfill", u, prefix),
                      SubTest("shim", u, prefix),
                      SubTest("auto", u, prefix)>>]

\* fs.statSync(d) resolves d against the working directory, not against
\* packageDir: it throws ENOENT when the working directory has no such entry.
statThrows(dir, entry) == dir = "empty"

\* fs.statSync(d).isDirectory() when statSync returns.
statIsDirectory(dir, entry) ==
    IF dir = "packageDir" THEN entry.isDir ELSE FALSE

\* The name tests of the filter, all made before statSync.
NameAllowed(entry) ==
    /\ ~entry.hidden
    /\ entry.name # "node_modules"
    /\ entry.name # "helpers"
    /\ entry.name # "test"

\* fs.readdirSync(packageDir).filter(...): the names kept, unless statSync
\* threw on an entry the name tests let through.
readDirs(r) ==
    LET named == SelectSeq(Listing(r.n), NameAllowed)
        IsDir(entry) == statIsDirectory(cwd, entry)
        kept == SelectSeq(named, IsDir)
    IN  [threw |-> \E i \in 1..Len(named) : statThrows(cwd, named[i]),
         dirs |-> [i \in 1..Len(kept) |-> kept[i].name]]

RECURSIVE subValidations(_, _, _)
\* subPackages.forEach: the sub-tests registered for declared[i..].
subValidations(u, r, i) ==
    IF i > Len(r.declared) THEN <<>>
    ELSE doValidation(u, r.declared[i],
                      r.subs[NameIndex(r.declared[i])]).tests
         \o subValidations(u, r, i + 1)

\* The root-level assertion made with the validator's own ./implementation.
rootLacksImplementation(u, r) ==
    LET implementation ==
            requireOrEvalError(IF r.implInValidatorDir THEN "function"
                               ELSE "absent")
    IN  Assertion(u, "root", "root lacks an implementation module",
                  implementation = "EvalError")

validateMulti(u, r) ==
    LET subPackages == requireOrEvalError(r.exports)
        isArray == Assertion(u, "root",
                             "main export is an array of sub packages",
                             subPackages \in {"array", "augmented"})
        noExtra == Assertion(u, "root",
                             "main export has no additional properties",
                             subPackages = "array")
        notEmpty == Assertion(u, "root", "array is not empty",
                              Len(r.declared) > 0)
        dirs == readDirs(r)
        matches ==
            Assertion(u, "root",
                      "main export subpackages matches dirs in the package root",
                      subPackages = "array" /\ r.declared = dirs.dirs)
        shim == Assertion(u, "root", "root shim is a function",
                          IsFunction(requireOrEvalError(r.shim)))
    IN  IF subPackages = "EvalError"
        THEN [ret |-> "EvalError", asserts |-> <<>>, tests |-> <<>>,
              threw |-> FALSE]
        ELSE IF subPackages \in {"null", "object"}
        THEN [ret |-> "none", asserts |-> <<isArray>>, tests |-> <<>>,
              threw |-> TRUE]
        ELSE IF dirs.threw
        THEN [ret |-> "none", asserts |-> <<isArray, noExtra, notEmpty>>,
              tests |-> <<>>, threw |-> TRUE]
        ELSE [ret |-> "undefined",
              asserts |-> <<isArray, noExtra, notEmpty, matches, shim,
                            rootLacksImplementation(u, r)>>,
              tests |-> <<SubTest("auto", u, "root")>>
                          \o subValidations(u, r, 1),
              threw |-> FALSE]

\* The single-mode branch: doValidation's return value is not used.
validateSingle(u, p) ==
    [ret |-> "undefined", asserts |-> <<>>,
     tests |-> doValidation(u, "", p).tests, threw |-> FALSE]

validateModule(u, x) ==
    IF isMulti THEN validateMulti(u, x) ELSE validateSingle(u, x.pkg)

Init ==
    /\ isBound \in BOOLEAN
    /\ isProperty \in BOOLEAN
    /\ skipShimPolyfill \in BOOLEAN
    /\ skipAutoShim \in BOOLEAN
    /\ isMulti \in BOOLEAN
    /\ cwd \in WorkingDirs(isMulti)
    /\ moduleNames \in 1..MaxModules
    /\ current = 0
    /\ unit = [pkg |-> "none"]
    /\ ended = TRUE
    /\ progeny = <<>>
    /\ procs = <<>>
    /\ log = <<>>
    /\ status = "running"

(***************************************************************************)
(* Steps.                                                                  *)
(***************************************************************************)

Running(proc) == proc.status = "running"

ProbeAlive == \E i \in 1..Len(procs) : Running(procs[i])

\* An uncaught exception ends the process: the lines recorded before it
\* stay, nothing else happens.
Throw(asserts) ==
    /\ log' = log \o asserts
    /\ status' = "crashed"
    /\ UNCHANGED <<flags, current, unit, ended, progeny, procs>>

\* A sub-test callback that ran to its st.end().
EndSubTest(asserts) ==
    /\ log' = log \o asserts
    /\ progeny' = Tail(progeny)
    /\ UNCHANGED <<flags, current, unit, ended, procs, status>>

Finish(result) ==
    IF result.threw THEN Throw(result.asserts) ELSE EndSubTest(result.asserts)

\* tape starts the next test: the callback of test('es-shim API : ...').
StartTest ==
    /\ status = "running"
    /\ ended
    /\ current < moduleNames
    /\ \E x \in Units(isMulti, MaxFaults) :
          LET u == current + 1
              v == validateModule(u, x)
              banner == Record(u, "", "* ----------------------------- * #",
                               "Note")
          IN  /\ current' = u
              /\ unit' = x
              /\ ended' = FALSE
              /\ procs' = <<>>
              /\ IF v.threw
                 THEN /\ log' = <<banner>> \o v.asserts
                      /\ progeny' = <<>>
                      /\ status' = "crashed"
                 ELSE /\ log' = <<banner>> \o v.asserts
                                  \o <<Assertion(u, "", "expected no error",
                                                 v.ret # "EvalError")>>
                      /\ progeny' = v.tests
                      /\ status' = status
    /\ UNCHANGED flags

Ready(kind) ==
    /\ status = "running"
    /\ progeny # <<>>
    /\ Head(progeny).kind = kind
    /\ ~ProbeAlive

ExportTest ==
    /\ Ready("export")
    /\ LET st == Head(progeny)
       IN  Finish(exportTest(st.unit, st.prefix, PackageAt(st.unit, st.prefix)))

ImplementationTest ==
    /\ Ready("implementation")
    /\ LET st == Head(progeny)
       IN  Finish(implementationTest(st.unit, st.prefix,
                                     PackageAt(st.unit, st.prefix)))

PolyfillTest ==
    /\ Ready("polyfill")
    /\ LET st == Head(progeny)
       IN  Finish(polyfillTest(st.unit, st.prefix,
                               PackageAt(st.unit, st.prefix)))

ShimTest ==
    /\ Ready("shim")
    /\ LET st == Head(progeny)
       IN  Finish(shimTest(st.unit, st.prefix, PackageAt(st.unit, st.prefix)))

\* testAuto's sub-test callback.  Without --skip-auto-shim it loads `auto`
\* in this process, spawns the probe and plans one assertion: the sub-test
\* stays open until ProcClose.
AutoTest ==
    /\ Ready("auto")
    /\ LET st == Head(progeny)
           dir == AutoDir(st.unit, st.prefix)
       IN  IF skipAutoShim
           THEN EndSubTest(<<SkipRecord(st.unit, st.prefix, CheckMsg[10])>>)
           ELSE IF dir.auto = "throws"
           THEN Throw(<<>>)
           ELSE /\ log' = Append(log, Record(st.unit, st.prefix,
                                             CheckMsg[10], "Note"))
                /\ procs' = Append(procs, [unit |-> st.unit,
                                           prefix |-> st.prefix,
                                           status |-> "running",
                                           code |-> dir.exit])
                /\ UNCHANGED <<flags, current, unit, ended, progeny, status>>

\* Variant of ProcClose whose assertion does not look at the exit code.
ProcClose_IgnoresCode ==
    /\ status = "running"
    /\ \E i \in 1..Len(procs) :
          /\ Running(procs[i])
          /\ procs' = [procs EXCEPT ![i].status = "closed"]
          /\ log' = Append(log,
                           [Assertion(procs[i].unit, procs[i].prefix,
                                      "auto invokes shim", TRUE)
                               EXCEPT !.probe = i])
          /\ progeny' = Tail(progeny)
    /\ UNCHANGED <<flags, current, unit, ended, status>>

\* proc.on('close', ...): the planned assertion is made and the sub-test ends.
ProcClose ==
    /\ status = "running"
    /\ \E i \in 1..Len(procs) :
          /\ Running(procs[i])
          /\ procs' = [procs EXCEPT ![i].status = "closed"]
          /\ log' = Append(log,
                           [Assertion(procs[i].unit, procs[i].prefix,
                                      "auto invokes shim", procs[i].code = 0)
                               EXCEPT !.probe = i])
          /\ progeny' = Tail(progeny)
    /\ UNCHANGED <<flags, current, unit, ended, status>>

\* Every sub-test of the running test has ended: the test emits 'end', its
\* Test object and what it held are dropped, and tape may start the next.
EndTest ==
    /\ status = "running"
    /\ ~ended
    /\ progeny = <<>>
    /\ ended' = TRUE
    /\ unit' = [pkg |-> "none"]
    /\ procs' = <<>>
    /\ log' = <<>>
    /\ UNCHANGED <<flags, current, progeny, status>>

Next ==
    \/ StartTest
    \/ ExportTest
    \/ ImplementationTest
    \/ PolyfillTest
    \/ ShimTest
    \/ AutoTest
    \/ ProcClose
    \/ EndTest

Spec == Init /\ [][Next]_vars

\* Every test has ended.
Done ==
    /\ status = "running"
    /\ current = moduleNames
    /\ ended

(***************************************************************************)
(* Vocabulary of the properties.                                           *)
(***************************************************************************)

\* The running test's callback has run (to its end or to an exception).
InTest == current >= 1 /\ ~ended

\* The callback ran to t.end(): 'expected no error' was asserted.
CallbackReturned ==
    InTest /\ \E k \in 1..Len(log) : log[k].msg = "expected no error"

\* The package directories doValidation was called with in the running test.
Handed ==
    IF ~CallbackReturned THEN {}
    ELSE IF ~isMulti THEN {""}
    ELSE IF unit.exports \in {"array", "augmented"}
    THEN {unit.declared[i] : i \in 1..Len(unit.declared)}
    ELSE {}

\* Those whose main module loaded, so that their sub-tests were registered.
Validated == {d \in Handed : PackageAt(current, d).main # "absent"}

\* Sub-test `kind` of the validated package d has run to its end: it is no
\* longer among the registered sub-tests that have not ended.
SubTestEnded(d, kind) ==
    \A k \in 1..Len(progeny) : progeny[k] # SubTest(kind, current, d)

\* Check i of package d is on record with one of these outcomes.
Has(d, i, outcomes) ==
    \E k \in 1..Len(log) :
        /\ log[k].prefix = d
        /\ log[k].msg = CheckMsg[i]
        /\ log[k].outcome \in outcomes

Evaluated(d, i) == Has(d, i, {"Pass", "Fail"})

Skipped(d, i) == Has(d, i, {"Skip"})

Times(d, i, outcome) ==
    Cardinality({k \in 1..Len(log) : /\ log[k].prefix = d
                                     /\ log[k].msg = CheckMsg[i]
                                     /\ log[k].outcome = outcome})

RootAssertion(msg, outcome) ==
    \E k \in 1..Len(log) :
        log[k].prefix = "root" /\ log[k].msg = msg /\ log[k].outcome = outcome

ShimCallable(d) == PackageAt(current, d).shim = "function"

(***************************************************************************)
(* C1.  A package whose main module fails to load: the failure is the      *)
(* failing 'expected no error' assertion of the test, and none of the ten  *)
(* checks is run for that package.                                         *)
(***************************************************************************)
C1_LoadFailureReported ==
    \A d \in Handed :
        PackageAt(current, d).main = "absent" =>
            /\ \E k \in 1..Len(log) : /\ log[k].msg = "expected no error"
                                      /\ log[k].outcome = "Fail"
            /\ \A i \in 1..10 : ~Has(d, i, {"Pass", "Fail", "Skip", "Note"})

(***************************************************************************)
(* C2.  Whatever the sub-modules' load outcomes and whatever the main      *)
(* export in multi mode (the auto entry points load, the working directory *)
(* is the package directory): no uncaught exception ends the run, and once *)
(* a package's sub-tests have ended every check no flag disables is on     *)
(* record.                                                                 *)
(***************************************************************************)
AutoLoads ==
    IF isMulti
    THEN /\ unit.auto = "loads"
         /\ \A i \in 1..unit.n : unit.subs[i].auto = "loads"
    ELSE unit.pkg.auto = "loads"

C2_AssertionsIndependent ==
    (InTest /\ cwd = "packageDir" /\ AutoLoads) =>
        /\ status # "crashed"
        /\ \A d \in Validated :
              SubTestEnded(d, "auto") =>
                  /\ \A i \in {1, 6, 8} : Evaluated(d, i)
                  /\ ~isBound => Evaluated(d, 2)
                  /\ ~isProperty => Evaluated(d, 4)
                  /\ ~isMulti => \A i \in {3, 5, 7} : Evaluated(d, i)
                  /\ ~skipShimPolyfill => Evaluated(d, 9)

(***************************************************************************)
(* C3.  As claimed: a skip flag that is set disables its one check (2, 4,  *)
(* 9, 10), and once the sub-test holding the check has ended the check is  *)
(* on record as a skip, never as a pass or a failure.                      *)
(***************************************************************************)
FlaggedNeverEvaluated(d) ==
    /\ isBound => ~Evaluated(d, 2)
    /\ isProperty => ~Evaluated(d, 4)
    /\ skipShimPolyfill => ~Evaluated(d, 9)
    /\ skipAutoShim => ~Evaluated(d, 10) /\ procs = <<>>

\* The flag leaves the other checks of the same sub-test alone.
OnlyItsCheck(d) ==
    /\ SubTestEnded(d, "export") => Evaluated(d, 1)
    /\ SubTestEnded(d, "implementation") => Has(d, 3, {"Pass", "Fail", "Skip"})
    /\ SubTestEnded(d, "shim") =>
          Has(d, 7, {"Pass", "Fail", "Skip"}) /\ Evaluated(d, 8)

C3_SkipAlwaysRecorded ==
    \A d \in Validated :
        /\ FlaggedNeverEvaluated(d)
        /\ OnlyItsCheck(d)
        /\ (isBound /\ SubTestEnded(d, "export")) => Skipped(d, 2)
        /\ (isProperty /\ SubTestEnded(d, "implementation")) => Skipped(d, 4)
        /\ (skipShimPolyfill /\ SubTestEnded(d, "shim")) => Skipped(d, 9)
        /\ (skipAutoShim /\ SubTestEnded(d, "auto")) => Skipped(d, 10)

(***************************************************************************)
(* C3, amended.  The same, except that check 9 lies behind check 8: with   *)
(* --skip-shim-returns-polyfill its skip is on record exactly when the     *)
(* shim sub-module is callable; when it is not, check 9 leaves no record.  *)
(***************************************************************************)
C3_SkipRecordedBehindPrecondition ==
    \A d \in Validated :
        /\ FlaggedNeverEvaluated(d)
        /\ OnlyItsCheck(d)
        /\ (isBound /\ SubTestEnded(d, "export")) => Skipped(d, 2)
        /\ (isProperty /\ SubTestEnded(d, "implementation")) => Skipped(d, 4)
        /\ (skipShimPolyfill /\ SubTestEnded(d, "shim")) =>
              (Skipped(d, 9) <=> ShimCallable(d))
        /\ (skipAutoShim /\ SubTestEnded(d, "auto")) => Skipped(d, 10)

\* All four flags set, a package with no callable shim, every sub-test over.
C3_Witness ==
    /\ isBound /\ isProperty /\ skipShimPolyfill /\ skipAutoShim
    /\ \E d \in Validated :
          /\ SubTestEnded(d, "auto")
          /\ ~ShimCallable(d)
          /\ Skipped(d, 2) /\ Skipped(d, 4) /\ Skipped(d, 10)
          /\ ~Skipped(d, 9)

(***************************************************************************)
(* C4.  A package that satisfies every contract clause: once its sub-tests *)
(* have ended it has no failing assertion, and its skip records are        *)
(* exactly those of the flags given, one each (--multi bringing those of   *)
(* the three linkage checks).                                              *)
(***************************************************************************)
FlagSkips ==
    {i \in {2, 4, 9, 10} : \/ (i = 2 /\ isBound)
                          \/ (i = 4 /\ isProperty)
                          \/ (i = 9 /\ skipShimPolyfill)
                          \/ (i = 10 /\ skipAutoShim)}
    \cup (IF isMulti THEN {3, 5, 7} ELSE {})

C4_ConformingPasses ==
    \A d \in Validated :
        (PackageAt(current, d) = Conforming /\ SubTestEnded(d, "auto")) =>
            /\ \A k \in 1..Len(log) :
                  log[k].prefix = d => log[k].outcome # "Fail"
            /\ \A i \in 1..10 : Times(d, i, "Skip")
                                   = (IF i \in FlagSkips THEN 1 ELSE 0)
            /\ \A i \in (1..9) \ FlagSkips : Times(d, i, "Pass") = 1
            /\ ~skipAutoShim =>
                  \E k \in 1..Len(log) : /\ log[k].prefix = d
                                         /\ log[k].msg = "auto invokes shim"
                                         /\ log[k].outcome = "Pass"

\* A conforming package validated to the end under --bound and --property.
C4_Witness ==
    /\ isBound /\ isProperty /\ ~skipAutoShim
    /\ \E d \in Validated :
          /\ PackageAt(current, d) = Conforming
          /\ SubTestEnded(d, "auto")
          /\ Skipped(d, 2) /\ Skipped(d, 4) /\ Evaluated(d, 9)

C6_RootImplementationInverted ==
    (isMulti /\ CallbackReturned /\ unit.exports \in {"array", "augmented"}) =>
        RootAssertion("root lacks an implementation module",
                      PassIf(~unit.implInPackageDir))

(***************************************************************************)
(* C7.  In multi mode, whatever the working directory: the assertion that  *)
(* the main export matches the directories is made against the eligible    *)
(* sub-directories of the package directory; and for a root that only      *)
(* leaves one of them out of a sequence that stays non-empty, it is the    *)
(* one root-level assertion that fails.                                    *)
(***************************************************************************)
OmitsOne ==
    /\ Len(unit.declared) >= 1
    /\ \E i \in 1..unit.n : unit.declared = RemoveAt(Eligible(unit.n), i)

C7_OnlyDirsAssertionFails ==
    (isMulti /\ InTest /\ unit.exports = "array") =>
        /\ RootAssertion(
               "main export subpackages matches dirs in the package root",
               PassIf(unit.declared = Eligible(unit.n)))
        /\ OmitsOne =>
              \A k \in 1..Len(log) :
                  (log[k].prefix = "root" /\ log[k].outcome = "Fail") =>
                      log[k].msg = "main export subpackages matches dirs in the package root"

(***************************************************************************)
(* C8.  A probe that was spawned has no assertion while its child runs and *)
(* exactly one once the child has closed, which passes exactly when the    *)
(* exit code is 0; no other line reports a probe; with --skip-auto-shim    *)
(* nothing is spawned and nothing is reported.                             *)
(***************************************************************************)
ProbeLines(i) == {k \in 1..Len(log) : log[k].probe = i}

C8_OneAssertionPerProbe ==
    /\ \A i \in 1..Len(procs) :
          IF Running(procs[i])
          THEN ProbeLines(i) = {}
          ELSE /\ Cardinality(ProbeLines(i)) = 1
               /\ \A k \in ProbeLines(i) :
                     /\ log[k].msg = "auto invokes shim"
                     /\ log[k].outcome = PassIf(procs[i].code = 0)
    /\ \A k \in 1..Len(log) :
          log[k].msg = "auto invokes shim" => log[k].probe \in 1..Len(procs)
    /\ skipAutoShim =>
          /\ procs = <<>>
          /\ \A k \in 1..Len(log) : log[k].msg # "auto invokes shim"

\* A child that exited with a non-zero code, reported as a failure.
C8_Witness ==
    \E i \in 1..Len(procs) :
        /\ ~Running(procs[i])
        /\ procs[i].code # 0
        /\ \E k \in ProbeLines(i) : log[k].outcome = "Fail"

(***************************************************************************)
(* C9.  The run stops only when it is complete or a child has not exited:  *)
(* as long as every spawned child has exited, either every test has ended  *)
(* or a next step can be taken.                                            *)
(***************************************************************************)
C9_StopsOnlyForProbe == ProbeAlive \/ Done \/ ENABLED Next

(***************************************************************************)
(* C10.  At most one child is alive; while one is alive the only line      *)
(* recorded is its own assertion and nothing else is started; and a        *)
(* package's auto sub-test runs (loads `auto`, spawns) only once that      *)
(* package's export, implementation, polyfill and shim sub-tests are over. *)
(***************************************************************************)
AliveProbes == {i \in 1..Len(procs) : Running(procs[i])}

OnlyTheProbeReports ==
    ProbeAlive =>
        /\ current' = current
        /\ Len(procs') = Len(procs)
        /\ \/ log' = log
           \/ \E i \in AliveProbes :
                 /\ Len(log') = Len(log) + 1
                 /\ SubSeq(log', 1, Len(log)) = log
                 /\ log'[Len(log')].probe = i

AutoRunsLast ==
    \A d \in Validated :
        ((d \in Validated' /\ SubTestEnded(d, "auto")')
             \/ Has(d, 10, {"Note", "Skip"})'
             \/ (\E i \in 1..Len(procs') : procs'[i].prefix = d)) =>
            \A kind \in {"export", "implementation", "polyfill", "shim"} :
                SubTestEnded(d, kind)

====
